---- MODULE Spec2Model ----
(***************************************************************************)
(* easy-hevc: the two commands of the CLI, convert (runConvert) and        *)
(* finalize (runFinalize), and the tools they use, modelled from           *)
(* src/unnamed/part_002.                                                   *)
(*                                                                         *)
(* A path string is a record [raw, dir, name]: raw = TRUE is a string that *)
(* still carries a "./" the way the user typed it, raw = FALSE is the      *)
(* string path.join() produces.  Two strings are equal (===) iff the       *)
(* records are equal; the file a string designates is Loc(p), which        *)
(* forgets raw.  A file name is [base, ext]; the empty name stands for     *)
(* "no tag" (ffprobe printed nothing) and for "no file".                   *)
(*                                                                         *)
(* Results of ffprobe and fs.stat are inputs: each probe draws a value     *)
(* from Durs / Sizes, a missing file probes as duration 0, and two probes  *)
(* of one file inside one item agree.                                      *)
(***************************************************************************)
EXTENDS Naturals, Integers, Sequences, FiniteSets, TLC

\* ---------------------------------------------------------------- bounds
MaxRuns == 2
MaxReask == 1
MaxSize == 2

\* ------------------------------------------------------- program constant
Tolerance == 2

\* ------------------------------------------------------- names and paths
Name(b, e) == [base |-> b, ext |-> e]
EmptyName == Name("", "")

Dirs == {"d"}
Bases == {"movie", "movie_converted", "clip", "clip_converted"}
Exts == {"mp4", "mkv"}
Names == {Name(b, e) : b \in Bases, e \in Exts}
Locs == {[dir |-> d, name |-> n] : d \in Dirs, n \in Names}

VALID_EXTS == {"mp4", "mkv", "avi", "mov", "flv", "wmv", "webm", "m4v", "mpg", "mpeg", "ts"}

\* path.join(dir, name): always a normalised string
PathJoin(d, n) == [raw |-> FALSE, dir |-> d, name |-> n]
\* path.dirname(p)
Dirname(p) == p.dir
\* the file system object a path string designates
Loc(p) == [dir |-> p.dir, name |-> p.name]

\* ------------------------------------------------------------ file system
NoFile == [id |-> EmptyName, tag |-> EmptyName]

\* FileService.exists
Exists(f, p) == Loc(p) \in DOMAIN f /\ f[Loc(p)] # NoFile

\* fs.unlink on an existing file
Unlink(f, p) == [f EXCEPT ![Loc(p)] = NoFile]

\* a file is created at, or replaces the file at, p
WriteFile(f, p, v) == [l \in DOMAIN f \cup {Loc(p)} |-> IF l = Loc(p) THEN v ELSE f[l]]

\* fs.rename(from, to): the destination is replaced if it exists
Rename(f, from, to) ==
    IF Loc(from) = Loc(to) THEN f
    ELSE WriteFile([f EXCEPT ![Loc(from)] = NoFile], to, f[Loc(from)])

\* FFmpegService.getOriginalFilenameTag: the tag, or the empty name (null)
GetOriginalFilenameTag(f, p) == IF Exists(f, p) THEN f[Loc(p)].tag ELSE EmptyName

\* FFmpegService.getDuration: what ffprobe may answer for p
Durs == {0, 10, 12, 13}
GetDuration(f, p) == IF Exists(f, p) THEN Durs ELSE {0}

\* FileService.getSize: what fs.stat may answer for an existing p
Sizes == 1..MaxSize

\* ------------------------------------------------------------------ scan
\* readdir order of the directory: one of two fixed orders
Ascending ==
    << Name("clip", "mp4"), Name("clip_converted", "mkv"), Name("movie", "mkv"),
       Name("movie", "mp4"), Name("movie_converted", "mkv"), Name("clip", "mkv"),
       Name("clip_converted", "mp4"), Name("movie_converted", "mp4") >>
RECURSIVE Reverse(_)
Reverse(s) == IF s = <<>> THEN <<>> ELSE Reverse(Tail(s)) \o <<Head(s)>>
ScanOrders == {Ascending, Reverse(Ascending)}

RECURSIVE ScanDir(_, _, _)
ScanDir(f, d, order) ==
    IF order = <<>> THEN <<>>
    ELSE LET p == PathJoin(d, Head(order))
             rest == ScanDir(f, d, Tail(order))
         IN IF Exists(f, p) /\ p.name.ext \in VALID_EXTS THEN <<p>> \o rest ELSE rest

\* FileService.scan: a file is returned as given, a directory's entries are joined
Scan(f, input, order) ==
    IF input.name = EmptyName THEN ScanDir(f, input.dir, order)
    ELSE IF ~Exists(f, input) THEN <<>>
    ELSE IF input.name.ext \in VALID_EXTS THEN <<input>> ELSE <<>>

IsMkv(p) == p.name.ext = "mkv"

RECURSIVE FilterMkv(_)
FilterMkv(files) ==
    IF files = <<>> THEN <<>>
    ELSE IF IsMkv(Head(files)) THEN <<Head(files)>> \o FilterMkv(Tail(files))
    ELSE FilterMkv(Tail(files))

\* ---------------------------------------------------------------- pairing
OriginalExists(f, mkv, originalPath) == Exists(f, originalPath) /\ originalPath # mkv

NeedsRename(mkv, finalPath) == mkv # finalPath

\* variant: the final name is built from the converted file's own base name
BuildItemOwnBase(f, mkv) ==
    LET originalFilename == GetOriginalFilenameTag(f, mkv)
        dir == Dirname(mkv)
        originalPath == PathJoin(dir, originalFilename)
        finalPath == PathJoin(dir, Name(mkv.name.base, "mkv"))
    IN [mkvPath |-> mkv, originalPath |-> originalPath, finalPath |-> finalPath,
        originalExists |-> OriginalExists(f, mkv, originalPath),
        needsRename |-> NeedsRename(mkv, finalPath)]

BuildItem(f, mkv) ==
    LET originalFilename == GetOriginalFilenameTag(f, mkv)
        dir == Dirname(mkv)
        originalPath == PathJoin(dir, originalFilename)
        finalPath == PathJoin(dir, Name(originalFilename.base, "mkv"))
    IN [mkvPath |-> mkv, originalPath |-> originalPath, finalPath |-> finalPath,
        originalExists |-> OriginalExists(f, mkv, originalPath),
        needsRename |-> NeedsRename(mkv, finalPath)]

\* variant: every tagged file is queued
QueuedAlways(item) == TRUE

\* variant: only a file whose original is there is queued
QueuedOnlyWithOriginal(item) == item.originalExists

Queued(item) == item.originalExists \/ item.needsRename

RECURSIVE BuildToProcess(_, _)
BuildToProcess(f, mkvFiles) ==
    IF mkvFiles = <<>> THEN <<>>
    ELSE LET mkv == Head(mkvFiles)
             rest == BuildToProcess(f, Tail(mkvFiles))
         IN IF GetOriginalFilenameTag(f, mkv) = EmptyName THEN rest
            ELSE IF Queued(BuildItem(f, mkv)) THEN <<BuildItem(f, mkv)>> \o rest
            ELSE rest

\* ------------------------------------------------------------- decisions
\* variant: the dry-run flag is forgotten in the test
NeedsConfirmForceOnly(o) == ~o.force

NeedsConfirm(o) == ~o.force /\ ~o.dryRun

Abs(x) == IF x < 0 THEN -x ELSE x
\* variant: Math.abs is forgotten
MismatchNoAbs(o, c) == o <= 0 \/ c <= 0 \/ o - c > Tolerance

Mismatch(o, c) == o <= 0 \/ c <= 0 \/ Abs(o - c) > Tolerance

\* variant: a converted file of the same size counts as larger
LargerOrEqual(c, o) == c >= o

Larger(cSz, oSz) == cSz > oSz

\* lines 709-713: the action a remembered policy stands for
PolicyAction(policy) ==
    CASE policy = "delete_converted" -> "yes"
      [] policy = "keep_converted" -> "no"
      [] policy = "skip_all" -> "skip"
      [] OTHER -> "ask"

\* variant: a single yes is remembered like a yes to all
AnswerPolicyYesSticks(policy, answer) ==
    CASE answer \in {"yes", "yes_all"} -> "delete_converted"
      [] answer = "no_all" -> "keep_converted"
      [] answer = "skip_all" -> "skip_all"
      [] OTHER -> policy

\* lines 717-728: the policy and the action after an answer
AnswerPolicy(policy, answer) ==
    CASE answer = "yes_all" -> "delete_converted"
      [] answer = "no_all" -> "keep_converted"
      [] answer = "skip_all" -> "skip_all"
      [] OTHER -> policy

AnswerAction(answer) ==
    CASE answer = "yes_all" -> "yes"
      [] answer = "no_all" -> "no"
      [] answer = "skip_all" -> "skip"
      [] OTHER -> answer

\* variant: "skip" does not set skipReplacement
AfterActionSkipFallsThrough(act) ==
    CASE act = "yes" -> "delConv"
      [] OTHER -> "delOrig"

\* lines 731-745: where the item goes once the action is known
AfterAction(act) ==
    CASE act = "yes" -> "delConv"
      [] act = "skip" -> "itemEnd"
      [] OTHER -> "delOrig"

\* variant: the dry-run branch is missing
OversizedResolutionNoDryRun(dry, policy) == PolicyAction(policy)

\* lines 702-713: how an oversized pair is resolved before any prompt
OversizedResolution(dry, policy) == IF dry THEN "dry" ELSE PolicyAction(policy)

\* a local of the loop body that has not been assigned
Unset == -1

\* variant: a thrown error ends the run
CaughtAborts == "aborted"

\* variant: after a failure the step that follows is taken all the same
CaughtGoesOn == "rename"

\* lines 774-778: where a thrown error leaves the loop body
Caught == "itemEnd"

\* ------------------------------------------------------------------ state
VARIABLES
    command,          \* the subcommand main() dispatches to
    binaries,         \* the external programs found in PATH
    copts,            \* convert: [input, deleteOriginal]
    files,            \* convert: the scanned files
    conflictPolicy,   \* convert: "ask" | "always" | "never"
    successCount, totalSaved,
    originalDuration, \* convert: local of the current file
    originalSize, newSize, convertedDuration,   \* convert: locals of the current file
    convStart,        \* convert: [fs, success, saved] when the current file started
    clog,             \* convert, per file: [res, tagged, prompted, answer, err]
    steady,           \* whether a file probes the same on every probe of the session
    seen,             \* what the probes of the session answered: file -> [dur, size]
    opts,             \* finalize: [force, dryRun, input] of the current run
    meta,             \* the metadata FFmpegService.convert passed for the last output
    probed,           \* what was read back from that output
    plan,             \* the paths finalize derived from one tagged file, as strings
    touched,          \* the paths finalize has unlinked or renamed for that file
    faulty,           \* whether stat / unlink / rename of an existing file may fail
    dirOrder,         \* readdir order
    fs,               \* the directory: Loc -> file
    fs0,              \* fs when the current run started
    run,              \* number of the current run
    prev,             \* the previous run: [dryRun, ended, clean, independent, deleted, renamed]
    pc,               \* position of runFinalize
    toProcess,        \* the candidate list
    idx,              \* index of the current item
    oDuration, cDuration, oSize, cSize,   \* locals of the current item
    action,           \* local "action" of the current item
    largerFilePolicy,
    deletedCount, renamedCount,
    itemStart,        \* [fs, deleted, renamed] when the current item started
    log,              \* per item: [res, oversized, action, prompted, answer]
    confirms,         \* blanket confirmations asked in this run
    typed,            \* the answer the blanket confirmation resolved on, trimmed and lowered
    reasks            \* invalid answers given to the open prompt

convVars == << command, binaries, copts, files, conflictPolicy, successCount, totalSaved,
               originalDuration, originalSize, newSize, convertedDuration, convStart, clog >>

tagVars == << meta, probed, plan, touched >>

vars == << convVars, steady, seen, opts, faulty, tagVars, dirOrder, fs, fs0, run, prev, pc, toProcess, idx, oDuration, cDuration,
           oSize, cSize, action, largerFilePolicy, deletedCount, renamedCount,
           itemStart, log, confirms, typed, reasks >>

locals == << oDuration, cDuration, oSize, cSize, action >>

finVars == << steady, seen, opts, run, prev, toProcess, locals, largerFilePolicy, deletedCount, renamedCount,
              itemStart, log, confirms, typed >>

EmptyLog ==
    [res |-> "pending", oversized |-> FALSE, action |-> "none", prompted |-> FALSE,
     answer |-> "none"]

\* ------------------------------------------------------- initial directory
TagsFor(n) ==
    IF n.ext # "mkv" THEN {EmptyName}
    ELSE IF n.base = "clip_converted" THEN {EmptyName, Name("clip", "mp4")}
    ELSE IF n.base = "movie_converted" THEN {EmptyName, Name("movie", "mp4"), Name("movie", "mkv")}
    ELSE {EmptyName, Name("movie", "mp4"), Name("movie", "mkv"), Name("clip", "mp4")}

InitFile(n) == {NoFile} \cup {[id |-> n, tag |-> t] : t \in TagsFor(n)}

MkDir(a, b, c, d, e) ==
    [l \in Locs |->
        CASE l.name = Name("movie", "mp4") -> a
          [] l.name = Name("clip", "mp4") -> b
          [] l.name = Name("movie", "mkv") -> c
          [] l.name = Name("movie_converted", "mkv") -> d
          [] l.name = Name("clip_converted", "mkv") -> e
          [] OTHER -> NoFile]

InitDirs ==
    { MkDir(a, b, c, d, e) :
        a \in InitFile(Name("movie", "mp4")), b \in InitFile(Name("clip", "mp4")),
        c \in InitFile(Name("movie", "mkv")), d \in InitFile(Name("movie_converted", "mkv")),
        e \in InitFile(Name("clip_converted", "mkv")) }

DirInput == [raw |-> FALSE, dir |-> "d", name |-> EmptyName]
FileInputs ==
    { [raw |-> r, dir |-> "d", name |-> n] :
        r \in BOOLEAN, n \in {Name("movie", "mkv"), Name("movie_converted", "mkv")} }
Inputs == {DirInput} \cup FileInputs

Options == [force : BOOLEAN, dryRun : BOOLEAN, input : Inputs]

\* nothing encoded, nothing read back
NoMeta == [name |-> "", input |-> "", inputHeight |-> 0, targetHeight |-> 0,
           easy_hevc_original_file |-> "", easy_hevc_target_resolution |-> ""]
NotProbed == [original_file |-> "", target_resolution |-> ""]
NoPlan == [mkvPath |-> <<>>, originalPath |-> <<>>, finalPath |-> <<>>,
           originalExists |-> FALSE, needsRename |-> FALSE]
NoEncode == meta = NoMeta /\ probed = NotProbed /\ plan = NoPlan /\ touched = {}

StartOfRun ==
    /\ pc = "start"
    /\ toProcess = <<>>
    /\ idx = 0
    /\ oDuration = Unset /\ cDuration = Unset /\ oSize = Unset /\ cSize = Unset
    /\ action = "none"
    /\ largerFilePolicy = "ask"
    /\ deletedCount = 0 /\ renamedCount = 0
    /\ log = <<>>
    /\ confirms = 0 /\ typed = ""
    /\ reasks = 0

\* the state of runConvert's variables while finalize runs
ConvLocalsIdle ==
    /\ copts = [input |-> DirInput, deleteOriginal |-> FALSE]
    /\ files = <<>>
    /\ conflictPolicy = "ask"
    /\ successCount = 0 /\ totalSaved = 0
    /\ originalDuration = Unset /\ originalSize = Unset /\ newSize = Unset
    /\ convertedDuration = Unset
    /\ clog = <<>>

ConvIdle ==
    /\ binaries = {"ffmpeg", "ffprobe"}
    /\ ConvLocalsIdle

\* no probe has answered yet
NothingSeen == [n \in Names |-> [dur |-> Unset, size |-> Unset]]

InitSessionWith(f, st) ==
    /\ command = "finalize"
    /\ steady = st
    /\ seen = NothingSeen
    /\ ConvLocalsIdle
    /\ faulty = f
    /\ opts \in Options
    /\ dirOrder \in (IF opts.input = DirInput THEN ScanOrders ELSE {Ascending})
    /\ fs \in InitDirs
    /\ fs0 = fs
    /\ convStart = [fs |-> fs, success |-> 0, saved |-> 0]
    /\ run = 1
    /\ prev = [dryRun |-> FALSE, ended |-> "none", clean |-> FALSE, independent |-> FALSE,
               deleted |-> 0, renamed |-> 0]
    /\ itemStart = [fs |-> fs, deleted |-> 0, renamed |-> 0]
    /\ StartOfRun
    /\ NoEncode

InitSession(f, st) ==
    /\ binaries = {"ffmpeg", "ffprobe"}
    /\ InitSessionWith(f, st)

InitWith(f) == InitSession(f, FALSE)

Init == InitWith(FALSE)

InitFaults == InitWith(TRUE)

\* ---------------------------------------------------------------- prompts
\* String.prototype.trim
WhiteSpace == {" ", "\n", "\t"}
RECURSIVE TrimStart(_)
TrimStart(str) ==
    IF Len(str) > 0 /\ SubSeq(str, 1, 1) \in WhiteSpace
    THEN TrimStart(SubSeq(str, 2, Len(str)))
    ELSE str
RECURSIVE TrimEnd(_)
TrimEnd(str) ==
    IF Len(str) > 0 /\ SubSeq(str, Len(str), Len(str)) \in WhiteSpace
    THEN TrimEnd(SubSeq(str, 1, Len(str) - 1))
    ELSE str
Trim(str) == TrimEnd(TrimStart(str))

\* String.prototype.toLowerCase, on the letters the answers are made of
LowerChar(c) ==
    CASE c = "Y" -> "y"
      [] c = "E" -> "e"
      [] c = "S" -> "s"
      [] c = "N" -> "n"
      [] c = "O" -> "o"
      [] OTHER -> c
RECURSIVE ToLowerCase(_)
ToLowerCase(str) ==
    IF str = "" THEN ""
    ELSE LowerChar(SubSeq(str, 1, 1)) \o ToLowerCase(SubSeq(str, 2, Len(str)))

\* line 110: the line typed, as the tests see it
Normalise(answer) == Trim(ToLowerCase(answer))

\* variant: a refusal is taken for a consent
ConfirmNoProceeds(a) ==
    IF a \in {"y", "yes", "n", "no"} THEN "true" ELSE "again"

\* Logger.confirm: what a typed line resolves to
ConfirmInputs == {"y", " Y", "n", "NO ", "maybe"}
Confirm(a) ==
    IF a \in {"y", "yes"} THEN "true"
    ELSE IF a \in {"n", "no"} THEN "false"
    ELSE "again"

\* Logger.askLargerFile: what a typed line resolves to
LargerInputs == {"A", "N", "S", "y", "n", "s", "a"}
AskLargerFile(a) ==
    CASE a = "A" -> "yes_all"
      [] a = "N" -> "no_all"
      [] a = "S" -> "skip_all"
      [] a \in {"y", "yes"} -> "yes"
      [] a \in {"n", "no"} -> "no"
      [] a \in {"s", "skip"} -> "skip"
      [] OTHER -> "again"

\* ----------------------------------------------------- effects on the disk
\* variant: the wrong path is unlinked
DeleteConvertedFsOriginal(f, item) == Unlink(f, item.originalPath)

DeleteConvertedFs(f, item) == Unlink(f, item.mkvPath)

\* variant: the dry-run test around fs.unlink is missing
DeleteOriginalFsAlways(f, item, dry) == Unlink(f, item.originalPath)

DeleteOriginalFs(f, item, dry) == IF dry THEN f ELSE Unlink(f, item.originalPath)

RenameFs(f, item, dry) == IF dry THEN f ELSE Rename(f, item.mkvPath, item.finalPath)

\* the two probes of one item: one file probes the same twice
SameFile(item) == Loc(item.originalPath) = Loc(item.mkvPath)

\* a probe of an existing file p may answer v: in a steady session a file answers
\* what it answered before
Repeats(f, p, field, v) ==
    (steady /\ Exists(f, p)) => seen[f[Loc(p)].id][field] \in {Unset, v}

\* the memory of the session after p answered v
Remember(sn, f, p, field, v) ==
    IF steady /\ Exists(f, p) THEN [sn EXCEPT ![f[Loc(p)].id][field] = v] ELSE sn

DurationPairs(f, item) ==
    { d \in GetDuration(f, item.originalPath) \X GetDuration(f, item.mkvPath) :
        /\ SameFile(item) => d[1] = d[2]
        /\ Repeats(f, item.originalPath, "dur", d[1])
        /\ Repeats(f, item.mkvPath, "dur", d[2]) }

SizePairs(item) ==
    { z \in Sizes \X Sizes :
        /\ SameFile(item) => z[1] = z[2]
        /\ Repeats(fs, item.originalPath, "size", z[1])
        /\ Repeats(fs, item.mkvPath, "size", z[2]) }

\* whether an operation on an existing file succeeds
Outcomes == IF faulty THEN BOOLEAN ELSE {TRUE}

\* ------------------------------------------------------------ runFinalize
Item == toProcess[idx]

SetLog(field, value) == [log EXCEPT ![idx] = [@ EXCEPT ![field] = value]]

\* lines 615-675: scan, build the candidate list, decide on the confirmation
FinScan ==
    /\ command = "finalize"
    /\ pc = "start"
    /\ LET mkvFiles == FilterMkv(Scan(fs, opts.input, dirOrder))
           tp == BuildToProcess(fs, mkvFiles)
       IN IF "ffprobe" \notin binaries /\ Len(mkvFiles) > 0
          THEN \* line 299: spawn emits 'error', which nothing listens to
               /\ pc' = "crashed"
               /\ UNCHANGED << toProcess, log, idx, confirms, typed >>
          ELSE /\ toProcess' = tp
               /\ log' = [i \in 1..Len(tp) |-> EmptyLog]
               /\ IF Len(tp) = 0
                  THEN pc' = "exit" /\ idx' = 0 /\ confirms' = confirms /\ typed' = typed
                  ELSE IF NeedsConfirm(opts)
                  THEN pc' = "confirm" /\ idx' = 0 /\ confirms' = confirms + 1 /\ typed' = typed
                  ELSE pc' = "item" /\ idx' = 1 /\ confirms' = confirms /\ typed' = typed
    /\ UNCHANGED << convVars, steady, seen, opts, faulty, tagVars, dirOrder, fs, fs0, run, prev, locals, largerFilePolicy,
                    deletedCount, renamedCount, itemStart, reasks >>

\* lines 664-672: the blanket confirmation is answered
FinConfirm ==
    /\ pc = "confirm"
    /\ \E answer \in ConfirmInputs :
          LET a == Normalise(answer)
          IN CASE Confirm(a) = "true" ->
                    pc' = "item" /\ idx' = 1 /\ reasks' = 0 /\ typed' = a
               [] Confirm(a) = "false" ->
                    pc' = "exit" /\ idx' = idx /\ reasks' = 0 /\ typed' = a
               [] OTHER ->
                    /\ reasks < MaxReask
                    /\ reasks' = reasks + 1
                    /\ UNCHANGED << pc, idx, typed >>
    /\ UNCHANGED << convVars, steady, seen, opts, faulty, tagVars, dirOrder, fs, fs0, run, prev, toProcess, locals, largerFilePolicy,
                    deletedCount, renamedCount, itemStart, log, confirms >>

\* lines 681-696: loop head and the duration check
FinItem ==
    /\ pc = "item"
    /\ itemStart' = [fs |-> fs, deleted |-> deletedCount, renamed |-> renamedCount]
    /\ IF Item.originalExists
       THEN \E d \in DurationPairs(fs, Item) :
              /\ oDuration' = d[1]
              /\ cDuration' = d[2]
              /\ seen' = Remember(Remember(seen, fs, Item.originalPath, "dur", d[1]),
                                  fs, Item.mkvPath, "dur", d[2])
              /\ IF Mismatch(d[1], d[2])
                 THEN pc' = "itemEnd" /\ log' = SetLog("res", "durSkip")
                 ELSE pc' = "sizes" /\ log' = log
       ELSE pc' = "delOrig" /\ log' = log /\ UNCHANGED << oDuration, cDuration, seen >>
    /\ UNCHANGED << convVars, steady, opts, faulty, tagVars, dirOrder, fs, fs0, run, prev, toProcess, idx, oSize, cSize, action,
                    largerFilePolicy, deletedCount, renamedCount, confirms, typed, reasks >>

\* lines 698-713: the size check, the dry-run branch and the remembered policy
FinSizes ==
    /\ pc = "sizes"
    /\ oDuration' = Unset /\ cDuration' = Unset
    /\ \E ok \in Outcomes :
          IF ~(ok /\ Exists(fs, Item.originalPath) /\ Exists(fs, Item.mkvPath))
          THEN /\ pc' = Caught /\ log' = SetLog("res", "failed")
               /\ UNCHANGED << oSize, cSize, action, reasks, seen >>
          ELSE \E z \in SizePairs(Item) :
                 /\ oSize' = z[1]
                 /\ cSize' = z[2]
                 /\ seen' = Remember(Remember(seen, fs, Item.originalPath, "size", z[1]),
                                     fs, Item.mkvPath, "size", z[2])
                 /\ IF ~Larger(z[2], z[1])
                    THEN pc' = "delOrig" /\ log' = log /\ UNCHANGED << action, reasks >>
                    ELSE LET r == OversizedResolution(opts.dryRun, largerFilePolicy)
                         IN CASE r = "dry" ->
                                   /\ pc' = "itemEnd"
                                   /\ log' = [log EXCEPT ![idx] =
                                                [@ EXCEPT !.oversized = TRUE, !.res = "dryOversized"]]
                                   /\ UNCHANGED << action, reasks >>
                              [] r = "ask" ->
                                   /\ pc' = "prompt"
                                   /\ reasks' = 0
                                   /\ log' = [log EXCEPT ![idx] =
                                                [@ EXCEPT !.oversized = TRUE, !.prompted = TRUE]]
                                   /\ UNCHANGED action
                              [] OTHER ->
                                   /\ action' = r
                                   /\ pc' = AfterAction(r)
                                   /\ log' = [log EXCEPT ![idx] =
                                                [@ EXCEPT !.oversized = TRUE, !.action = r,
                                                          !.res = IF r = "skip" THEN "userSkip" ELSE @]]
                                   /\ UNCHANGED reasks
    /\ UNCHANGED << convVars, steady, opts, faulty, tagVars, dirOrder, fs, fs0, run, prev, toProcess, idx, largerFilePolicy,
                    deletedCount, renamedCount, itemStart, confirms, typed >>

\* lines 715-729: the oversized prompt is answered
FinPrompt ==
    /\ pc = "prompt"
    /\ \E a \in LargerInputs :
          LET answer == AskLargerFile(a)
          IN IF answer = "again"
             THEN /\ reasks < MaxReask
                  /\ reasks' = reasks + 1
                  /\ UNCHANGED << pc, largerFilePolicy, action, log >>
             ELSE /\ largerFilePolicy' = AnswerPolicy(largerFilePolicy, answer)
                  /\ action' = AnswerAction(answer)
                  /\ pc' = AfterAction(action')
                  /\ reasks' = 0
                  /\ log' = [log EXCEPT ![idx] =
                               [@ EXCEPT !.action = action', !.answer = answer,
                                         !.res = IF action' = "skip" THEN "userSkip" ELSE @]]
    /\ UNCHANGED << convVars, steady, seen, opts, faulty, tagVars, dirOrder, fs, fs0, run, prev, toProcess, idx, oDuration, cDuration,
                    oSize, cSize, deletedCount, renamedCount, itemStart, confirms, typed >>

\* lines 731-735: delete the larger converted file, keep the original
FinDeleteConverted ==
    /\ pc = "delConv"
    /\ \E ok \in Outcomes :
          IF ok /\ Exists(fs, Item.mkvPath)
          THEN /\ fs' = DeleteConvertedFs(fs, Item)
               /\ log' = SetLog("res", "deletedConverted")
               /\ pc' = "itemEnd"
          ELSE fs' = fs /\ log' = SetLog("res", "failed") /\ pc' = Caught
    /\ UNCHANGED << convVars, steady, seen, opts, faulty, tagVars, dirOrder, fs0, run, prev, toProcess, idx, locals, largerFilePolicy,
                    deletedCount, renamedCount, itemStart, confirms, typed, reasks >>

\* lines 747-757: step 1, delete the original
FinDeleteOriginal ==
    /\ pc = "delOrig"
    /\ IF ~Item.originalExists
       THEN pc' = "rename" /\ UNCHANGED << fs, deletedCount, log >>
       ELSE \E ok \in Outcomes :
              IF opts.dryRun \/ (ok /\ Exists(fs, Item.originalPath))
              THEN /\ fs' = DeleteOriginalFs(fs, Item, opts.dryRun)
                   /\ deletedCount' = deletedCount + 1
                   /\ pc' = "rename"
                   /\ log' = log
              ELSE /\ pc' = Caught
                   /\ log' = SetLog("res", "failed")
                   /\ UNCHANGED << fs, deletedCount >>
    /\ UNCHANGED << convVars, steady, seen, opts, faulty, tagVars, dirOrder, fs0, run, prev, toProcess, idx, locals, largerFilePolicy,
                    renamedCount, itemStart, confirms, typed, reasks >>

\* lines 759-773: step 2, rename the converted file
FinRename ==
    /\ pc = "rename"
    /\ IF ~Item.needsRename
       THEN log' = SetLog("res", "done") /\ pc' = "itemEnd" /\ UNCHANGED << fs, renamedCount >>
       ELSE \E ok \in Outcomes :
              IF opts.dryRun \/ (ok /\ Exists(fs, Item.mkvPath))
              THEN /\ fs' = RenameFs(fs, Item, opts.dryRun)
                   /\ renamedCount' = renamedCount + 1
                   /\ log' = SetLog("res", "done")
                   /\ pc' = "itemEnd"
              ELSE /\ log' = SetLog("res", "failed")
                   /\ pc' = Caught
                   /\ UNCHANGED << fs, renamedCount >>
    /\ UNCHANGED << convVars, steady, seen, opts, faulty, tagVars, dirOrder, fs0, run, prev, toProcess, idx, locals, largerFilePolicy,
                    deletedCount, itemStart, confirms, typed, reasks >>

\* variant: the loop does not advance
NextIndexStays(i) == i

\* variant: the loop starts over
NextIndexRestarts(i) == 1

\* lines 484 and 681: the loops take the files one after the other
NextIndex(i) == i + 1

\* line 681: the loop moves on, or the summary is printed (lines 781-784)
FinNextItem ==
    /\ pc = "itemEnd"
    /\ oDuration' = Unset /\ cDuration' = Unset /\ oSize' = Unset /\ cSize' = Unset /\ action' = "none"
    /\ IF idx < Len(toProcess)
       THEN idx' = NextIndex(idx) /\ pc' = "item"
       ELSE idx' = idx /\ pc' = "done"
    /\ UNCHANGED << convVars, steady, seen, opts, faulty, tagVars, dirOrder, fs, fs0, run, prev, toProcess, largerFilePolicy,
                    deletedCount, renamedCount, itemStart, log, confirms, typed, reasks >>

\* every candidate of the run was carried through
Clean(l) == \A i \in 1..Len(l) : l[i].res \in {"done", "deletedConverted"}

\* no two candidates of the list share a converted, original or final path
ItemLocs(item) == {Loc(item.mkvPath), Loc(item.originalPath), Loc(item.finalPath)}
Independent(tp) ==
    \A i, j \in 1..Len(tp) : i # j => ItemLocs(tp[i]) \cap ItemLocs(tp[j]) = {}

\* the command is invoked again with the same options

NextRun ==
    /\ pc \in {"done", "exit"}
    /\ run < MaxRuns
    /\ run' = run + 1
    /\ prev' = [dryRun |-> opts.dryRun, ended |-> pc, clean |-> pc = "done" /\ Clean(log),
                independent |-> Independent(toProcess),
                deleted |-> deletedCount, renamed |-> renamedCount]
    /\ opts' = opts
    /\ fs0' = fs
    /\ itemStart' = [fs |-> fs, deleted |-> 0, renamed |-> 0]
    /\ pc' = "start"
    /\ toProcess' = <<>>
    /\ idx' = 0
    /\ oDuration' = Unset /\ cDuration' = Unset /\ oSize' = Unset /\ cSize' = Unset
    /\ action' = "none"
    /\ largerFilePolicy' = "ask"
    /\ deletedCount' = 0 /\ renamedCount' = 0
    /\ log' = <<>>
    /\ confirms' = 0 /\ typed' = ""
    /\ reasks' = 0
    /\ UNCHANGED << convVars, steady, seen, faulty, tagVars, dirOrder, fs >>

Next ==
    \/ FinScan
    \/ FinConfirm
    \/ FinItem
    \/ FinSizes
    \/ FinPrompt
    \/ FinDeleteConverted
    \/ FinDeleteOriginal
    \/ FinRename
    \/ FinNextItem

Spec == Init /\ [][Next]_vars

\* the same program on a disk whose operations may fail
SpecFaults == InitFaults /\ [][Next]_vars

\* the same on a directory that holds two converted files that bear their sources'
\* names, where the program keeps running and every prompt gets an answer
InitFaultsLive ==
    /\ InitFaults
    /\ opts.input = DirInput
    /\ fs[[dir |-> "d", name |-> Name("movie", "mkv")]] = NoFile
    /\ fs[[dir |-> "d", name |-> Name("movie_converted", "mkv")]].tag = Name("movie", "mp4")
    /\ fs[[dir |-> "d", name |-> Name("clip_converted", "mkv")]].tag = Name("clip", "mp4")

SpecFaultsLive == InitFaultsLive /\ [][Next]_vars /\ WF_vars(Next)

\* a dry run has ended and the command is invoked again without --dry-run
RealRun ==
    /\ pc \in {"done", "exit"}
    /\ opts.dryRun
    /\ run < MaxRuns
    /\ run' = run + 1
    /\ prev' = [dryRun |-> opts.dryRun, ended |-> pc, clean |-> pc = "done" /\ Clean(log),
                independent |-> Independent(toProcess),
                deleted |-> deletedCount, renamed |-> renamedCount]
    /\ \E force \in BOOLEAN : opts' = [opts EXCEPT !.dryRun = FALSE, !.force = force]
    /\ fs0' = fs
    /\ itemStart' = [fs |-> fs, deleted |-> 0, renamed |-> 0]
    /\ pc' = "start"
    /\ toProcess' = <<>>
    /\ idx' = 0
    /\ oDuration' = Unset /\ cDuration' = Unset /\ oSize' = Unset /\ cSize' = Unset
    /\ action' = "none"
    /\ largerFilePolicy' = "ask"
    /\ deletedCount' = 0 /\ renamedCount' = 0
    /\ log' = <<>>
    /\ confirms' = 0 /\ typed' = ""
    /\ reasks' = 0
    /\ UNCHANGED << convVars, steady, seen, faulty, tagVars, dirOrder, fs >>

\* a dry run on a directory that holds files named movie only, then a real run
\* on it; a file probes the same duration and size every time
InitDryReal ==
    /\ InitSession(FALSE, TRUE)
    /\ opts.dryRun /\ ~opts.force
    /\ opts.input = DirInput
    /\ fs[[dir |-> "d", name |-> Name("clip", "mp4")]] = NoFile
    /\ fs[[dir |-> "d", name |-> Name("clip_converted", "mkv")]] = NoFile

NextDryReal ==
    \/ Next
    \/ RealRun

SpecDryReal == InitDryReal /\ [][NextDryReal]_vars

\* the command is run again once it has ended
NextRerun ==
    \/ Next
    \/ NextRun

SpecRerun == Init /\ [][NextRerun]_vars

\* ------------------------------------------------------------- runConvert
\* the default of the --suffix option
Suffix == "_converted"

\* baseName.endsWith(opts.suffix)
EndsWith(str, suf) ==
    Len(str) >= Len(suf) /\ SubSeq(str, Len(str) - Len(suf) + 1, Len(str)) = suf

\* lines 535-539: the two paths of a source file
OutputPath(file) == PathJoin(file.dir, Name(file.name.base \o Suffix, "mkv"))
TempPath(file) == PathJoin(file.dir, Name(file.name.base \o Suffix \o ".temp", "mkv"))

\* FFmpegService.convert: what a finished encode leaves at the output path
Encoded(input, output) == [id |-> output.name, tag |-> input.name]
\* what an encode that failed half-way leaves there
Partial(output) == [id |-> output.name, tag |-> EmptyName]

\* variant: only a shorter output is a mismatch
ConvMismatchShorterOnly(o, c) == c <= 0 \/ o - c > Tolerance

\* line 557: the test on the two durations
ConvMismatch(o, c) == c <= 0 \/ Abs(o - c) > Tolerance

\* Logger.askConflict: what a typed line resolves to
ConflictInputs == {"A", "N", "y", "n", "S"}
AskConflict(a) ==
    CASE a = "A" -> "yes_all"
      [] a = "N" -> "no_all"
      [] a \in {"y", "yes"} -> "yes"
      [] a \in {"n", "no"} -> "no"
      [] OTHER -> "again"

\* variant: the remembered "never" is not consulted
TagDecisionAsksAgain(policy) == IF policy = "always" THEN "proceed" ELSE "ask"

\* lines 509-532: what the loop does with a file that bears the tag
TagDecision(policy) ==
    CASE policy = "never" -> "skip"
      [] policy = "ask" -> "ask"
      [] OTHER -> "proceed"

\* lines 517-529: the policy after an answer
ConflictPolicyAfter(policy, answer) ==
    CASE answer = "no_all" -> "never"
      [] answer = "yes_all" -> "always"
      [] OTHER -> policy

EmptyConvLog ==
    [res |-> "pending", tagged |-> FALSE, prompted |-> FALSE, answer |-> "none", err |-> "none"]

\* the directories convert starts on
MkConvDir(a, b, c, d, e) ==
    [l \in Locs |->
        CASE l.name = Name("movie", "mp4") -> a
          [] l.name = Name("clip", "mp4") -> b
          [] l.name = Name("movie", "mkv") -> c
          [] l.name = Name("clip", "mkv") -> d
          [] l.name = Name("movie_converted", "mkv") -> e
          [] OTHER -> NoFile]

Plain(n) == [id |-> n, tag |-> EmptyName]
Tagged(n, t) == [id |-> n, tag |-> t]

ConvInitDirs ==
    { MkConvDir(a, b, c, d, e) :
        a \in {NoFile, Plain(Name("movie", "mp4"))},
        b \in {NoFile, Plain(Name("clip", "mp4"))},
        c \in {NoFile, Plain(Name("movie", "mkv")),
               Tagged(Name("movie", "mkv"), Name("movie", "mp4"))},
        d \in {NoFile, Tagged(Name("clip", "mkv"), Name("clip", "mp4"))},
        e \in {NoFile, Plain(Name("movie_converted", "mkv")),
               Tagged(Name("movie_converted", "mkv"), Name("movie", "mp4"))} }

ConvInputs == {DirInput, [raw |-> FALSE, dir |-> "d", name |-> Name("movie", "mkv")]}

ConvOptions == [input : ConvInputs, deleteOriginal : BOOLEAN]

\* the state of runFinalize's variables while convert runs
FinIdle ==
    /\ steady = FALSE
    /\ seen = NothingSeen
    /\ opts = [force |-> FALSE, dryRun |-> FALSE, input |-> DirInput]
    /\ run = 1
    /\ prev = [dryRun |-> FALSE, ended |-> "none", clean |-> FALSE, independent |-> FALSE,
               deleted |-> 0, renamed |-> 0]
    /\ StartOfRun
    /\ NoEncode

InitConvertWith(f) ==
    /\ command = "convert"
    /\ faulty = f
    /\ binaries \in SUBSET {"ffmpeg", "ffprobe"}
    /\ copts \in ConvOptions
    /\ dirOrder \in (IF copts.input = DirInput THEN ScanOrders ELSE {Ascending})
    /\ fs \in ConvInitDirs
    /\ fs0 = fs
    /\ files = <<>>
    /\ conflictPolicy = "ask"
    /\ successCount = 0 /\ totalSaved = 0
    /\ originalDuration = Unset /\ originalSize = Unset /\ newSize = Unset
    /\ convertedDuration = Unset
    /\ convStart = [fs |-> fs, success |-> 0, saved |-> 0]
    /\ clog = <<>>
    /\ itemStart = [fs |-> fs, deleted |-> 0, renamed |-> 0]
    /\ FinIdle

InitConvert == InitConvertWith(FALSE)

\* with failing filesystem calls: both binaries installed, three files at most
InitConvertFaults ==
    /\ InitConvertWith(TRUE)
    /\ binaries = {"ffmpeg", "ffprobe"}
    /\ ~Exists(fs, PathJoin("d", Name("clip", "mkv")))
    /\ ~Exists(fs, PathJoin("d", Name("movie_converted", "mkv")))

File == files[idx]

SetConvLog(field, value) == [clog EXCEPT ![idx] = [@ EXCEPT ![field] = value]]

\* lines 541-544: the output exists already, or the encode is next
AfterTagCheck(f, file) == IF Exists(f, OutputPath(file)) THEN "cItemEnd" ELSE "cEncode"

\* lines 461-478: the binaries are checked and the input is scanned
ConvScan ==
    /\ command = "convert"
    /\ pc = "start"
    /\ IF binaries # {"ffmpeg", "ffprobe"}
       THEN pc' = "exit1" /\ UNCHANGED << files, clog, idx >>
       ELSE LET fl == Scan(fs, copts.input, dirOrder)
            IN /\ files' = fl
               /\ clog' = [i \in 1..Len(fl) |-> EmptyConvLog]
               /\ IF Len(fl) = 0
                  THEN pc' = "exit" /\ idx' = 0
                  ELSE pc' = "cItem" /\ idx' = 1
    /\ UNCHANGED << command, binaries, copts, conflictPolicy, successCount, totalSaved,
                    originalDuration, originalSize, newSize, convertedDuration, convStart, finVars, faulty, tagVars, dirOrder, fs, fs0, reasks >>

\* lines 485-544: the checks made on a file before it is encoded
ConvItem ==
    /\ pc = "cItem"
    /\ convStart' = [fs |-> fs, success |-> successCount, saved |-> totalSaved]
    /\ \E d \in GetDuration(fs, File) :
          /\ originalDuration' = d
          /\ IF d <= 0
             THEN pc' = "cItemEnd" /\ clog' = SetConvLog("res", "invalid")
             ELSE IF EndsWith(File.name.base, Suffix)
             THEN pc' = "cItemEnd" /\ clog' = SetConvLog("res", "outputFile")
             ELSE IF GetOriginalFilenameTag(fs, File) = EmptyName
             THEN /\ pc' = AfterTagCheck(fs, File)
                  /\ clog' = SetConvLog("res", IF pc' = "cItemEnd" THEN "exists" ELSE "pending")
             ELSE LET dec == TagDecision(conflictPolicy)
                  IN CASE dec = "skip" ->
                            /\ pc' = "cItemEnd"
                            /\ clog' = [clog EXCEPT ![idx] =
                                          [@ EXCEPT !.tagged = TRUE, !.res = "policySkip"]]
                       [] dec = "ask" ->
                            /\ pc' = "cPrompt"
                            /\ clog' = [clog EXCEPT ![idx] =
                                          [@ EXCEPT !.tagged = TRUE, !.prompted = TRUE]]
                       [] OTHER ->
                            /\ pc' = AfterTagCheck(fs, File)
                            /\ clog' = [clog EXCEPT ![idx] =
                                          [@ EXCEPT !.tagged = TRUE,
                                                    !.res = IF pc' = "cItemEnd" THEN "exists"
                                                            ELSE "pending"]]
    /\ reasks' = 0
    /\ UNCHANGED << command, binaries, copts, files, conflictPolicy, successCount, totalSaved,
                    originalSize, newSize, convertedDuration, finVars, faulty, tagVars, dirOrder, fs, fs0, idx >>

\* lines 515-530: the conflict prompt is answered
ConvPrompt ==
    /\ pc = "cPrompt"
    /\ \E a \in ConflictInputs :
          LET answer == AskConflict(a)
          IN IF answer = "again"
             THEN /\ reasks < MaxReask
                  /\ reasks' = reasks + 1
                  /\ UNCHANGED << pc, conflictPolicy, clog >>
             ELSE /\ conflictPolicy' = ConflictPolicyAfter(conflictPolicy, answer)
                  /\ reasks' = 0
                  /\ pc' = IF answer \in {"no", "no_all"} THEN "cItemEnd"
                           ELSE AfterTagCheck(fs, File)
                  /\ clog' = [clog EXCEPT ![idx] =
                                [@ EXCEPT !.answer = answer,
                                          !.res = IF answer \in {"no", "no_all"} THEN "userSkip"
                                                  ELSE IF pc' = "cItemEnd" THEN "exists"
                                                  ELSE "pending"]]
    /\ UNCHANGED << command, binaries, copts, files, successCount, totalSaved, originalDuration,
                    originalSize, newSize, convertedDuration, convStart, finVars, faulty, tagVars, dirOrder, fs, fs0, idx >>

\* lines 546-566: the encode and the check of the encoded duration
ConvEncode ==
    /\ pc = "cEncode"
    /\ \E enc \in {"ok", "failed", "partial"} :
          CASE enc = "failed" ->
                 /\ fs' = fs
                 /\ pc' = "cCleanup"
                 /\ clog' = SetConvLog("err", "ffmpeg")
                 /\ UNCHANGED convertedDuration
            [] enc = "partial" ->
                 /\ fs' = WriteFile(fs, TempPath(File), Partial(TempPath(File)))
                 /\ pc' = "cCleanup"
                 /\ clog' = SetConvLog("err", "ffmpeg")
                 /\ UNCHANGED convertedDuration
            [] OTHER ->
                 \E c \in Durs, ok \in Outcomes :
                    LET written == WriteFile(fs, TempPath(File), Encoded(File, TempPath(File)))
                    IN /\ convertedDuration' = c
                       /\ IF ~ConvMismatch(originalDuration, c)
                          THEN fs' = written /\ pc' = "cReplace" /\ clog' = clog
                          ELSE IF ok
                          THEN /\ fs' = Unlink(written, TempPath(File))
                               /\ pc' = "cItemEnd"
                               /\ clog' = SetConvLog("res", "durMismatch")
                          ELSE /\ fs' = written
                               /\ pc' = "cCleanup"
                               /\ clog' = SetConvLog("err", "fs")
    /\ UNCHANGED << command, binaries, copts, files, conflictPolicy, successCount, totalSaved,
                    originalDuration, originalSize, newSize, convStart, finVars, faulty, tagVars, dirOrder,
                    fs0, idx, reasks >>

\* variant: an output of the same size counts as saving space
SavesSpaceOrEqual(savedBytes) == savedBytes >= 0

\* line 573: the test on the bytes saved
SavesSpace(savedBytes) == savedBytes > 0

\* lines 567-597: the sizes are compared and the output takes its final name
ConvReplace ==
    /\ pc = "cReplace"
    /\ \E okStat \in Outcomes, okRename \in Outcomes, okUnlink \in Outcomes, z \in Sizes \X Sizes :
          LET savedBytes == z[1] - z[2]
              renamed == Rename(fs, TempPath(File), OutputPath(File))
          IN IF ~okStat
             THEN /\ pc' = "cCleanup"
                  /\ clog' = SetConvLog("err", "fs")
                  /\ UNCHANGED << fs, successCount, totalSaved, originalSize, newSize >>
             ELSE /\ originalSize' = z[1]
                  /\ newSize' = z[2]
                  /\ IF ~okRename
                     THEN /\ pc' = "cCleanup"
                          /\ clog' = SetConvLog("err", "fs")
                          /\ UNCHANGED << fs, successCount, totalSaved >>
                     ELSE IF SavesSpace(savedBytes)
                     THEN IF copts.deleteOriginal /\ ~okUnlink
                          THEN /\ fs' = renamed
                               /\ pc' = "cCleanup"
                               /\ clog' = SetConvLog("err", "fs")
                               /\ UNCHANGED << successCount, totalSaved >>
                          ELSE /\ fs' = IF copts.deleteOriginal THEN Unlink(renamed, File)
                                        ELSE renamed
                               /\ totalSaved' = totalSaved + savedBytes
                               /\ successCount' = successCount + 1
                               /\ pc' = "cItemEnd"
                               /\ clog' = SetConvLog("res", "saved")
                     ELSE /\ fs' = renamed
                          /\ pc' = "cItemEnd"
                          /\ clog' = SetConvLog("res", "grew")
                          /\ UNCHANGED << successCount, totalSaved >>
    /\ UNCHANGED << command, binaries, copts, files, conflictPolicy, originalDuration,
                    convertedDuration, convStart, finVars, faulty, tagVars, dirOrder, fs0, idx, reasks >>

\* variant: the catch block leaves the temp file where it is
CleanupFsKeepsTemp(f, temp) == f

\* line 602: the temp file is removed
CleanupFs(f, temp) == Unlink(f, temp)

\* lines 598-603: the catch block removes the temp file
ConvCleanup ==
    /\ pc = "cCleanup"
    /\ IF ~Exists(fs, TempPath(File))
       THEN fs' = fs /\ pc' = "cItemEnd"
       ELSE \E ok \in Outcomes :
              IF ok THEN fs' = CleanupFs(fs, TempPath(File)) /\ pc' = "cItemEnd"
              ELSE fs' = fs /\ pc' = "crashed"
    /\ clog' = SetConvLog("res", "failed")
    /\ UNCHANGED << command, binaries, copts, files, conflictPolicy, successCount, totalSaved,
                    originalDuration, originalSize, newSize, convertedDuration, convStart, finVars,
                    faulty, tagVars, dirOrder, fs0, idx, reasks >>

\* line 484: the loop moves on, or the summary is printed (lines 606-609)
ConvNextItem ==
    /\ pc = "cItemEnd"
    /\ originalDuration' = Unset /\ originalSize' = Unset /\ newSize' = Unset
    /\ convertedDuration' = Unset
    /\ IF idx < Len(files)
       THEN idx' = NextIndex(idx) /\ pc' = "cItem"
       ELSE idx' = idx /\ pc' = "done"
    /\ UNCHANGED << command, binaries, copts, files, conflictPolicy, successCount, totalSaved,
                    convStart, clog, finVars, faulty, tagVars, dirOrder, fs, fs0, reasks >>

NextConvert ==
    \/ ConvScan
    \/ ConvItem
    \/ ConvPrompt
    \/ ConvEncode
    \/ ConvReplace
    \/ ConvCleanup
    \/ ConvNextItem

SpecConvert == InitConvert /\ [][NextConvert]_vars

SpecConvertFaults == InitConvertFaults /\ [][NextConvert]_vars

\* ------------------------------------------------------------------- main
\* lines 875-886: convert has ended and the program is started again as finalize,
\* on the same directory
MainFinalize ==
    /\ command = "convert"
    /\ pc \in {"done", "exit"}
    /\ command' = "finalize"
    /\ opts' \in {o \in Options : o.input = DirInput}
    /\ pc' = "start"
    /\ idx' = 0
    /\ reasks' = 0
    /\ fs0' = fs
    /\ itemStart' = [fs |-> fs, deleted |-> 0, renamed |-> 0]
    /\ UNCHANGED << binaries, copts, files, conflictPolicy, successCount, totalSaved,
                    originalDuration, originalSize, newSize, convertedDuration, convStart, clog, run, prev, toProcess, locals,
                    largerFilePolicy, deletedCount, renamedCount, log, confirms, typed,
                    steady, seen, faulty, tagVars, dirOrder, fs >>

\* the sessions followed: convert is run on a directory that holds two files
\* converted before, movie.mkv and clip.mkv
MainDir ==
    MkConvDir(NoFile, NoFile, Tagged(Name("movie", "mkv"), Name("movie", "mp4")),
              Tagged(Name("clip", "mkv"), Name("clip", "mp4")), NoFile)

InitMain ==
    /\ InitConvert
    /\ copts.input = DirInput
    /\ fs = MainDir

NextMain ==
    \/ NextConvert
    \/ MainFinalize
    \/ Next

SpecMain == InitMain /\ [][NextMain]_vars

\* lines 875-886: either command, on a machine with any of the two binaries installed
InitEither ==
    \/ /\ InitConvert
       /\ copts.input = DirInput
       /\ ~Exists(fs, PathJoin("d", Name("clip", "mkv")))
       /\ ~Exists(fs, PathJoin("d", Name("movie_converted", "mkv")))
    \/ /\ binaries \in SUBSET {"ffmpeg", "ffprobe"}
       /\ InitSessionWith(FALSE, FALSE)
       /\ opts.input = DirInput

NextEither ==
    \/ NextConvert
    \/ Next

SpecEither == InitEither /\ [][NextEither]_vars

\* -------------------------------------------------------- provenance tags
\* file names convert may meet, the heights ffprobe may report (0: none read),
\* and the values of --resolution
TagNames == {"clip.mp4", "movie.mkv", "my clip.mp4", " clip.mp4", "a.b.mov"}
TagDirs == {"d", "d/sub"}
Heights == {0, 480, 720, 1080}
Resolutions == {"480", "720", "1080"}

\* line 552: parseInt(opts.resolution, 10)
ParseInt(r) ==
    CASE r = "480" -> 480
      [] r = "720" -> 720
      [] r = "1080" -> 1080
      [] OTHER -> 0

\* path.basename: what follows the last separator
RECURSIVE Basename(_)
Basename(path) ==
    LET cut == {i \in 1..Len(path) : SubSeq(path, i, i) = "/"}
    IN IF cut = {} THEN path
       ELSE Basename(SubSeq(path, (CHOOSE i \in cut : TRUE) + 1, Len(path)))

\* variant: the target height is recorded whatever the source height
TargetResolutionTagAlways(inputHeight, targetHeight) == ToString(targetHeight) \o "p"

\* lines 349-356: the value of easy_hevc_target_resolution
TargetResolutionTag(inputHeight, targetHeight) ==
    IF inputHeight > targetHeight
    THEN ToString(targetHeight) \o "p"
    ELSE ToString(inputHeight) \o "p (original)"

\* lines 318-356: the metadata arguments of one encode
ConvertMetadata(name, input, inputHeight, targetHeight) ==
    [name |-> name, input |-> input,
     inputHeight |-> inputHeight, targetHeight |-> targetHeight,
     easy_hevc_original_file |-> Basename(input),
     easy_hevc_target_resolution |-> TargetResolutionTag(inputHeight, targetHeight)]

\* lines 289-307: ffprobe prints the stored value on a line of its own, and the
\* line is trimmed
ProbeTagValue(stored) == Trim(stored \o "\n")

\* FFmpegService.convert on one file
TagEncode ==
    /\ meta = NoMeta
    /\ \E d \in TagDirs, n \in TagNames, h \in Heights, r \in Resolutions :
          meta' = ConvertMetadata(n, d \o "/" \o n, h, ParseInt(r))
    /\ UNCHANGED << convVars, finVars, faulty, probed, plan, touched, dirOrder, fs, fs0, pc, idx,
                    reasks >>

\* the tags of the output are read back
TagProbe ==
    /\ meta # NoMeta /\ probed = NotProbed
    /\ probed' = [original_file |-> ProbeTagValue(meta.easy_hevc_original_file),
                  target_resolution |-> ProbeTagValue(meta.easy_hevc_target_resolution)]
    /\ UNCHANGED << convVars, finVars, faulty, meta, plan, touched, dirOrder, fs, fs0, pc, idx,
                    reasks >>

InitTags ==
    /\ InitMain
    /\ dirOrder = Ascending
    /\ binaries = {"ffmpeg", "ffprobe"}
    /\ ~copts.deleteOriginal

NextTags ==
    \/ TagEncode
    \/ TagProbe

SpecTags == InitTags /\ [][NextTags]_vars

\* ------------------------------------------------- paths built from a tag
\* a path is the sequence of its segments
RECURSIVE Split(_)
Split(str) ==
    LET cut == {i \in 1..Len(str) : SubSeq(str, i, i) = "/"}
    IN IF cut = {} THEN <<str>>
       ELSE LET i == CHOOSE c \in cut : \A o \in cut : c <= o
            IN <<SubSeq(str, 1, i - 1)>> \o Split(SubSeq(str, i + 1, Len(str)))

\* path.normalize on a relative path: empty and "." segments go, ".." takes the
\* segment before it away
RECURSIVE Normalize(_, _)
Normalize(segs, out) ==
    IF segs = <<>> THEN out
    ELSE LET h == Head(segs)
         IN IF h \in {"", "."} THEN Normalize(Tail(segs), out)
            ELSE IF h = ".." /\ out # <<>> /\ out[Len(out)] # ".."
            THEN Normalize(Tail(segs), SubSeq(out, 1, Len(out) - 1))
            ELSE Normalize(Tail(segs), Append(out, h))

\* path.join(dir, name)
PathJoinStr(dir, name) == Normalize(Split(dir) \o Split(name), <<>>)

\* path.dirname
PathDirname(path) == SubSeq(path, 1, Len(path) - 1)

\* path.parse(name).name: the last segment without its extension
PathParseName(name) ==
    LET segs == Normalize(Split(name), <<>>)
        base == IF segs = <<>> THEN "" ELSE segs[Len(segs)]
        dots == {i \in 2..Len(base) : SubSeq(base, i, i) = "."}
    IN IF dots = {} THEN base
       ELSE SubSeq(base, 1, (CHOOSE d \in dots : \A o \in dots : d >= o) - 1)

\* the directories scanned, the .mkv files found in them, the tags they may carry
PlanDirs == {"d", "d/sub", "videos"}
PlanFiles == {"movie_converted.mkv", "movie.mkv"}
PlanTags == {"movie.mp4", "movie.mkv", "../movie.mp4", "sub/movie.mp4", "/etc/movie.mp4",
             "../../home/movie.mp4"}

\* lines 637-652: the paths of one candidate
BuildPlan(dir, file, tag, onDisk) ==
    LET mkv == PathJoinStr(dir, file)
        originalPath == PathJoinStr(dir, tag)
        finalPath == PathJoinStr(dir, PathParseName(tag) \o ".mkv")
    IN [mkvPath |-> mkv, originalPath |-> originalPath, finalPath |-> finalPath,
        originalExists |-> onDisk /\ originalPath # mkv,
        needsRename |-> mkv # finalPath]

\* lines 630-652: one tagged file is inspected; onDisk is what FileService.exists
\* answers for the original path
PlanBuild ==
    /\ plan = NoPlan
    /\ \E dir \in PlanDirs, file \in PlanFiles, tag \in PlanTags, onDisk \in BOOLEAN :
          /\ plan' = BuildPlan(dir, file, tag, onDisk)
          /\ plan'.originalExists \/ plan'.needsRename
    /\ UNCHANGED << convVars, finVars, faulty, meta, probed, touched, dirOrder, fs, fs0, pc, idx,
                    reasks >>

\* lines 747-757: the original is unlinked
PlanDeleteOriginal ==
    /\ plan # NoPlan /\ touched = {}
    /\ plan.originalExists
    /\ touched' = {plan.originalPath}
    /\ UNCHANGED << convVars, finVars, faulty, meta, probed, plan, dirOrder, fs, fs0, pc, idx,
                    reasks >>

\* lines 759-773: the converted file is renamed
PlanRename ==
    /\ plan # NoPlan
    /\ plan.needsRename
    /\ plan.originalExists => touched # {}
    /\ plan.mkvPath \notin touched
    /\ touched' = touched \cup {plan.mkvPath, plan.finalPath}
    /\ UNCHANGED << convVars, finVars, faulty, meta, probed, plan, dirOrder, fs, fs0, pc, idx,
                    reasks >>

NextPaths ==
    \/ PlanBuild
    \/ PlanDeleteOriginal
    \/ PlanRename

SpecPaths == InitTags /\ [][NextPaths]_vars

\* ------------------------------------------------------------------ claims
InItem == pc \in {"sizes", "prompt", "delConv", "delOrig", "rename", "itemEnd"}

ItemUntouched ==
    /\ fs = itemStart.fs
    /\ deletedCount = itemStart.deleted
    /\ renamedCount = itemStart.renamed

\* C2: in a dry run (force set or not) nothing is unlinked and nothing is renamed:
\* at every point of the run the directory is the one the run started with.
C2_DryRunNoMutation == opts.dryRun => fs = fs0

\* a dry run that reached the summary having counted a would-delete and a would-rename
C2_Witness == opts.dryRun /\ pc = "done" /\ deletedCount > 0 /\ renamedCount > 0

\* one duration is not positive, or the two are more than two seconds apart
OutOfTolerance(o, c) == o <= 0 \/ c <= 0 \/ o - c > 2 \/ c - o > 2

\* C5: once the two durations of a candidate with an original are probed and they
\* differ by more than the tolerance (or one is not positive), the item is over:
\* nothing was deleted or renamed, no counter moved, no prompt was issued.
C5_DurationMismatchSkips ==
    (idx > 0 /\ oDuration # Unset /\ OutOfTolerance(oDuration, cDuration)) =>
        /\ pc = "itemEnd"
        /\ Item.originalExists
        /\ ItemUntouched
        /\ ~log[idx].prompted
        /\ ~log[idx].oversized
        /\ oSize = Unset /\ cSize = Unset

\* a candidate skipped for durations 10 s and 13 s, both files still there
C5_Witness ==
    /\ pc = "itemEnd" /\ oDuration = 10 /\ cDuration = 13
    /\ ~opts.dryRun
    /\ Exists(fs, Item.originalPath) /\ Exists(fs, Item.mkvPath)

\* C9: in a dry run a converted file larger than its original is resolved as skip
\* with no prompt: it is reported as "user would be prompted", counted neither as a
\* would-delete nor as a would-rename, and the policy memo stays "ask".
C9_DryRunOversizedSkips ==
    opts.dryRun =>
        /\ largerFilePolicy = "ask"
        /\ pc # "prompt"
        /\ \A i \in 1..Len(log) : ~log[i].prompted /\ log[i].answer = "none"
        /\ (idx > 0 /\ cSize # Unset /\ Larger(cSize, oSize)) =>
              /\ pc = "itemEnd"
              /\ log[idx].res = "dryOversized"
              /\ deletedCount = itemStart.deleted
              /\ renamedCount = itemStart.renamed

\* a dry run standing after an oversized pair
C9_Witness ==
    opts.dryRun /\ idx > 0 /\ cSize # Unset /\ Larger(cSize, oSize) /\ Item.originalExists

\* C10: the blanket confirmation is asked once, before the loop, exactly when the
\* candidate list is not empty and neither force nor dryRun is set; with an empty
\* list the run exits with no prompt and no change on disk.
C10_ConfirmationGate ==
    /\ pc = "start" => confirms = 0
    /\ pc # "start" =>
          confirms = (IF Len(toProcess) > 0 /\ ~opts.force /\ ~opts.dryRun THEN 1 ELSE 0)
    /\ pc = "confirm" => idx = 0 /\ fs = fs0
    /\ (pc # "start" /\ Len(toProcess) = 0) =>
          /\ pc = "exit"
          /\ fs = fs0
          /\ deletedCount = 0 /\ renamedCount = 0

\* a confirmed run that deleted an original
C10_Witness == pc = "done" /\ confirms = 1 /\ deletedCount > 0

\* the files of candidate i
OrigLoc(i) == Loc(toProcess[i].originalPath)
MkvLoc(i) == Loc(toProcess[i].mkvPath)
\* <directory>/<original base name>.mkv
FinalLoc(i) ==
    [dir |-> toProcess[i].mkvPath.dir, name |-> Name(toProcess[i].originalPath.name.base, "mkv")]

\* C1 as stated: in a run that is not a dry run, a candidate whose converted file is
\* larger than its existing original keeps its original unless its resolution is
\* "no" (keep converted), and after "skip" both files are on disk, unchanged and
\* under their old names, when the run ends.
C1_SizeGrowthGuardAtRunEnd ==
    (pc = "done" /\ ~opts.dryRun) =>
        \A i \in 1..Len(toProcess) :
            (log[i].oversized /\ log[i].action \in {"yes", "skip"}) =>
                /\ fs[OrigLoc(i)] = fs0[OrigLoc(i)]
                /\ log[i].action = "skip" => fs[MkvLoc(i)] = fs0[MkvLoc(i)]

\* C1, amended: the processing of such a candidate deletes its original or renames
\* its converted file only if its resolution is "no"; after "skip" the whole
\* directory and both counters are, when the processing of that candidate ends,
\* what they were when it began.
C1_SizeGrowthGuard ==
    (idx > 0 /\ InItem /\ ~opts.dryRun /\ log[idx].oversized) =>
        /\ Larger(cSize, oSize)
        /\ log[idx].action \in {"yes", "skip"} =>
              /\ fs[OrigLoc(idx)] = itemStart.fs[OrigLoc(idx)]
              /\ MkvLoc(idx) # FinalLoc(idx) => fs[FinalLoc(idx)] = itemStart.fs[FinalLoc(idx)]
              /\ deletedCount = itemStart.deleted
              /\ renamedCount = itemStart.renamed
        /\ log[idx].action = "skip" => pc = "itemEnd" /\ fs = itemStart.fs

\* a pair skipped under the remembered policy skip_all
C1_Witness ==
    /\ pc = "itemEnd" /\ ~opts.dryRun
    /\ log[idx].oversized /\ log[idx].action = "skip" /\ log[idx].answer = "none"
    /\ Exists(fs, Item.originalPath) /\ Exists(fs, Item.mkvPath)

PassedChecks ==
    /\ pc = "itemEnd"
    /\ Item.originalExists /\ ~SameFile(Item)
    /\ cSize # Unset /\ ~Larger(cSize, oSize)

\* C6 as stated: with force and no dry run, such a candidate has its original
\* deleted, the converted file at <directory>/<original base name>.mkv, and both
\* counters one higher.
C6_ReplaceCountsBoth ==
    (PassedChecks /\ opts.force /\ ~opts.dryRun) =>
        /\ \A l \in Locs : fs[l] # itemStart.fs[OrigLoc(idx)]
        /\ fs[FinalLoc(idx)] = itemStart.fs[MkvLoc(idx)]
        /\ deletedCount = itemStart.deleted + 1
        /\ renamedCount = itemStart.renamed + 1

\* C6, amended: the same, except that the renamed counter moves only when the
\* converted file's current path differs from the final path.
C6_ReplaceCountsRenameIfNeeded ==
    (PassedChecks /\ opts.force /\ ~opts.dryRun) =>
        /\ \A l \in Locs : fs[l] # itemStart.fs[OrigLoc(idx)]
        /\ fs[FinalLoc(idx)] = itemStart.fs[MkvLoc(idx)]
        /\ MkvLoc(idx) # FinalLoc(idx) => fs[MkvLoc(idx)] = NoFile
        /\ deletedCount = itemStart.deleted + 1
        /\ renamedCount = itemStart.renamed + (IF Item.mkvPath # PathJoin(FinalLoc(idx).dir, FinalLoc(idx).name) THEN 1 ELSE 0)

\* movie_converted.mkv has replaced movie.mp4 as movie.mkv
C6_Witness ==
    /\ PassedChecks /\ opts.force /\ ~opts.dryRun
    /\ Item.mkvPath.name = Name("movie_converted", "mkv")
    /\ Item.originalPath.name = Name("movie", "mp4")
    /\ fs[FinalLoc(idx)].id = Name("movie_converted", "mkv")
    /\ renamedCount = itemStart.renamed + 1

\* C7: policy "ask", converted file larger, the user answers "yes": the converted
\* file is deleted, the original stays, nothing is renamed, no counter moves.
C7_YesDeletesConverted ==
    (idx > 0 /\ InItem /\ log[idx].answer = "yes") =>
        /\ ~opts.dryRun
        /\ Larger(cSize, oSize)
        /\ pc \in {"delConv", "itemEnd"}
        /\ deletedCount = itemStart.deleted
        /\ renamedCount = itemStart.renamed
        /\ pc = "delConv" => fs = itemStart.fs
        /\ pc = "itemEnd" =>
              /\ fs[MkvLoc(idx)] = NoFile
              /\ \A l \in Locs : l # MkvLoc(idx) => fs[l] = itemStart.fs[l]
              /\ fs[OrigLoc(idx)] # NoFile

\* the converted file is gone and the original is still there
C7_Witness ==
    /\ pc = "itemEnd" /\ log[idx].answer = "yes"
    /\ ~Exists(fs, Item.mkvPath) /\ Exists(fs, Item.originalPath)

\* C3 as stated: whatever the directory, once a run that is not a dry run has gone
\* through its candidates, a second run on the same directory builds an empty
\* candidate list and deletes and renames nothing.
C3_SecondRunEmpty ==
    (run = 2 /\ ~opts.dryRun /\ opts.input = DirInput /\ prev.ended = "done" /\ pc # "start") =>
        /\ Len(toProcess) = 0
        /\ fs = fs0
        /\ deletedCount = 0 /\ renamedCount = 0

\* a converted file that needs nothing: it bears its final name and no other file
\* is its original
Finalized(f, l) ==
    /\ f[l].tag # EmptyName
    /\ l.name = Name(f[l].tag.base, "mkv")
    /\ (f[l].tag = l.name \/ ~Exists(f, PathJoin(l.dir, f[l].tag)))

\* C3, amended: no candidate of the second run is a file that was finalized when
\* that run began; and if the first run carried every one of its candidates
\* through and no two of them shared a path, the second run builds an empty list
\* and deletes and renames nothing.
C3_SecondRunSkipsFinalized ==
    (run = 2 /\ ~opts.dryRun /\ opts.input = DirInput /\ pc # "start") =>
        /\ \A i \in 1..Len(toProcess) : ~Finalized(fs0, MkvLoc(i))
        /\ (prev.clean /\ prev.independent) =>
              /\ Len(toProcess) = 0
              /\ pc = "exit"
              /\ fs = fs0
              /\ deletedCount = 0 /\ renamedCount = 0

\* a second run with nothing to do after a first run that deleted and renamed
C3_Witness ==
    /\ run = 2 /\ ~opts.dryRun /\ opts.input = DirInput /\ pc = "exit"
    /\ prev.clean /\ prev.independent /\ prev.deleted > 0 /\ prev.renamed > 0
    /\ \E l \in Locs : Finalized(fs, l)

\* the "to all" answers of the two prompts
LargerToAll == {"yes_all", "no_all", "skip_all"}
ConflictToAll == {"yes_all", "no_all"}

\* C8: once a "to all" answer is given to a prompt, no later item of the run is
\* prompted in that category and every later item of the category gets the action
\* of the answer: in finalize an oversized candidate is resolved as the answer
\* says, in convert a file that bears the tag is skipped after no_all and goes on
\* to be converted after yes_all.
C8_ToAllIsRemembered ==
    /\ \A i, j \in 1..Len(log) :
          (i < j /\ log[i].answer \in LargerToAll) =>
              /\ ~log[j].prompted
              /\ log[j].answer = "none"
              /\ log[j].oversized => log[j].action = AnswerAction(log[i].answer)
    /\ \A i, j \in 1..Len(clog) :
          (i < j /\ clog[i].answer \in ConflictToAll) =>
              /\ ~clog[j].prompted
              /\ clog[j].answer = "none"
              /\ (clog[j].tagged /\ clog[i].answer = "no_all") => clog[j].res = "policySkip"
              /\ (clog[j].tagged /\ clog[i].answer = "yes_all") =>
                    clog[j].res \notin {"policySkip", "userSkip"}

\* convert was told "yes to all" at its first file and converted the second, which
\* bears the tag, unasked; finalize was then told "skip to all" at its first
\* candidate and its second, oversized too, was skipped unasked
C8_Witness ==
    /\ Len(clog) = 2 /\ clog[1].answer = "yes_all"
    /\ clog[2].tagged /\ ~clog[2].prompted /\ clog[2].res \in {"saved", "grew"}
    /\ Len(log) = 2 /\ log[1].answer = "skip_all"
    /\ log[2].oversized /\ ~log[2].prompted /\ log[2].action = "skip"
    /\ pc = "done"

\* some candidate of the run failed on a delete, a rename or a size lookup
SomeFailed == \E i \in 1..Len(log) : log[i].res = "failed"

\* C11: a delete, rename or size lookup that fails for a candidate is caught: the
\* step that fails changes no file and undoes nothing, the run goes on, every
\* candidate after it is processed, and the summary is reached.
C11_FailureIsolated ==
    /\ [][(idx > 0 /\ log'[idx].res = "failed" /\ log[idx].res # "failed") =>
            /\ fs' = fs
            /\ deletedCount' = deletedCount /\ renamedCount' = renamedCount
            /\ pc' = "itemEnd"]_vars
    /\ SomeFailed ~> (pc = "done" /\ \A i \in 1..Len(log) : log[i].res # "pending")

\* the rename of the first candidate failed after its original had been deleted,
\* the original is still gone at the summary and the second candidate was renamed
C11_Witness ==
    /\ pc = "done" /\ Len(log) = 2
    /\ log[1].res = "failed" /\ log[2].res = "done"
    /\ toProcess[1].originalExists /\ ~Exists(fs, toProcess[1].originalPath)
    /\ Exists(fs, toProcess[1].mkvPath)
    /\ deletedCount = 1 /\ renamedCount = 1

\* every oversized conflict of the run was answered "skip"
AllAnsweredSkip == \A i \in 1..Len(log) : log[i].answer \in {"none", "skip"}

\* C12: the deleted and renamed counters a dry run reported equal the numbers of
\* originals deleted and files renamed by the real run (force set, every oversized
\* conflict answered "skip") that follows it on the same directory.
C12_DryRunPredictsRealRun ==
    (run = 2 /\ prev.dryRun /\ ~opts.dryRun /\ opts.force /\ pc \in {"done", "exit"}
        /\ AllAnsweredSkip) =>
        /\ deletedCount = prev.deleted
        /\ renamedCount = prev.renamed

\* convert is working on the file in hand
ConvInItem ==
    command = "convert" /\ idx > 0
        /\ pc \in {"cPrompt", "cEncode", "cReplace", "cCleanup", "cItemEnd", "crashed"}

\* C13: convert deletes the source file only if --delete-original is set and the
\* output is strictly smaller; an output that is larger than or as large as the
\* source leaves the source as it was, is moved to its suffixed name all the same,
\* and is neither counted as successful nor added to the space saved.
C13_DeleteOnlyIfSmaller ==
    ConvInItem =>
        /\ fs[Loc(File)] # convStart.fs[Loc(File)] =>
              /\ fs[Loc(File)] = NoFile
              /\ copts.deleteOriginal
              /\ newSize # Unset /\ newSize < originalSize
        /\ (newSize # Unset /\ newSize >= originalSize) =>
              /\ fs[Loc(File)] = convStart.fs[Loc(File)]
              /\ successCount = convStart.success
              /\ totalSaved = convStart.saved
              /\ (pc = "cItemEnd" /\ clog[idx].res # "failed") =>
                    /\ clog[idx].res = "grew"
                    /\ fs[Loc(OutputPath(File))] = Encoded(File, TempPath(File))
                    /\ ~Exists(fs, TempPath(File))

\* --delete-original is set, the output is as large as the source: the source is
\* still there and the output bears its suffixed name
C13_Witness ==
    /\ ConvInItem /\ pc = "cItemEnd"
    /\ copts.deleteOriginal
    /\ newSize = originalSize /\ newSize # Unset
    /\ Exists(fs, File) /\ Exists(fs, OutputPath(File))
    /\ successCount = 0

\* C14: when the duration read from the temporary output is not positive, or is
\* more than two seconds away from the source's, the temporary output is deleted,
\* nothing appears at the final output path, the source is as it was (also under
\* --delete-original), nothing is counted, and the loop is at its next iteration.
C14_TruncatedOutputDiscarded ==
    (ConvInItem /\ convertedDuration # Unset
        /\ (convertedDuration <= 0 \/ OutOfTolerance(originalDuration, convertedDuration))) =>
        /\ pc = "cItemEnd"
        /\ ~Exists(fs, TempPath(File))
        /\ ~Exists(fs, OutputPath(File))
        /\ \A l \in Locs : fs[l] = convStart.fs[l]
        /\ successCount = convStart.success /\ totalSaved = convStart.saved

\* a converted duration three seconds longer than the source's, with
\* --delete-original set
C14_Witness ==
    /\ ConvInItem /\ pc = "cItemEnd"
    /\ copts.deleteOriginal
    /\ originalDuration = 10 /\ convertedDuration = 13
    /\ Exists(fs, File)

\* C15: when the encoder exits with a non-zero code, whatever it left at the
\* temporary path is deleted, nothing appears at the output path, the source and
\* every other file are as they were, the success counter and the space saved are
\* not changed, and the loop is at its next iteration.
C15_EncoderFailureCleansUp ==
    (ConvInItem /\ clog[idx].err = "ffmpeg") =>
        /\ pc \in {"cCleanup", "cItemEnd"}
        /\ ~Exists(fs, OutputPath(File))
        /\ \A l \in Locs : fs[l] = convStart.fs[l]
        /\ successCount = convStart.success /\ totalSaved = convStart.saved
        /\ pc = "cItemEnd" => (~Exists(fs, TempPath(File)) /\ clog[idx].res = "failed")

\* the encoder failed on the first of two files under --delete-original, was
\* cleaned up after, and the second file was encoded
C15_Witness ==
    /\ command = "convert" /\ idx = 2 /\ pc = "cItemEnd"
    /\ copts.deleteOriginal
    /\ clog[1].err = "ffmpeg" /\ clog[1].res = "failed"
    /\ clog[2].res = "saved"
    /\ Exists(fs, files[1]) /\ ~Exists(fs, TempPath(files[1]))

\* C16: a filesystem call that fails while convert handles one file (the rename of
\* the temporary output, the deletion of the source, the deletion of the
\* temporary output during cleanup) is confined to that file: the loop is never
\* left before the remaining files are handled and the summary is printed.
C16_FsFailureConfined ==
    (command = "convert" /\ faulty /\ idx > 0) => pc # "crashed"

BothBinaries == {"ffmpeg", "ffprobe"}

\* C17: with ffmpeg or ffprobe missing, either command stops with exit code 1
\* before a file is scanned, probed, created, deleted or renamed.
C17_MissingBinaryAborts ==
    binaries # BothBinaries =>
        /\ pc \in {"start", "exit1"}
        /\ fs = fs0
        /\ files = <<>> /\ toProcess = <<>>

\* the name read back is the name written, less the blanks at its ends
SameButOuterBlanks(written, read) ==
    /\ \E a, b \in {"", " "} : written = a \o read \o b
    /\ read # "" => (SubSeq(read, 1, 1) # " " /\ SubSeq(read, Len(read), Len(read)) # " ")

\* C18 as stated: the tags read back from an output are the source's file name and
\* "<h>p" for the chosen resolution h, whatever the height of the source.
C18_TagRoundTripExact ==
    probed # NotProbed =>
        /\ probed.original_file = meta.name
        /\ probed.target_resolution = ToString(meta.targetHeight) \o "p"

\* C18, amended: the original-file tag read back is the source's file name less
\* blanks at its ends (the name itself when it has none); the target resolution
\* read back is "<h>p" when the source is higher than h, and "<H>p (original)"
\* for a source of height H that is not.
C18_TagRoundTrip ==
    probed # NotProbed =>
        /\ SameButOuterBlanks(meta.name, probed.original_file)
        /\ meta.inputHeight > meta.targetHeight =>
              probed.target_resolution = ToString(meta.targetHeight) \o "p"
        /\ meta.inputHeight <= meta.targetHeight =>
              probed.target_resolution = ToString(meta.inputHeight) \o "p (original)"

\* a 480-line source encoded for 720 lines from a subdirectory
C18_Witness ==
    /\ meta.name = "clip.mp4" /\ meta.input = "d/sub/clip.mp4"
    /\ meta.inputHeight = 480 /\ meta.targetHeight = 720
    /\ probed.original_file = "clip.mp4"
    /\ probed.target_resolution = "480p (original)"

\* the file carried the provenance tag when convert started
HadTag(file) == fs0[Loc(file)].tag # EmptyName

\* convert has taken its skip/conflict decision on file i
Decided(i) == clog[i].res \notin {"pending", "invalid"}

\* C19: the provenance tag alone decides whether convert treats a file as an
\* output of an earlier run: of two files of one run that both bear the tag, or
\* both lack it, either both are skipped as output files or neither is.
C19_TagAloneDecides ==
    command = "convert" =>
        \A i, j \in 1..Len(clog) :
            (Decided(i) /\ Decided(j) /\ HadTag(files[i]) = HadTag(files[j])) =>
                (clog[i].res = "outputFile") = (clog[j].res = "outputFile")

\* C20: a finalize run with --force never waits on a prompt, neither on the
\* blanket confirmation nor on a per-file question.
C20_ForceNeverPrompts ==
    (command = "finalize" /\ opts.force) => pc \notin {"confirm", "prompt"}

\* a tagged .mkv file of the scanned directory whose tag names a file that is not
\* there, and whose name is not the final name yet
Orphan(l) ==
    LET p == PathJoin(l.dir, l.name)
        t == fs0[l].tag
    IN /\ fs0[l] # NoFile /\ l.name.ext = "mkv" /\ t # EmptyName
       /\ ~Exists(fs0, PathJoin(l.dir, t))
       /\ l.name # Name(t.base, "mkv")

\* C21: a tagged file whose tag names a file that is not in its directory, and
\* whose path is not the final path, is a candidate; it goes from the loop head to
\* the rename with no probe and no prompt, nothing is deleted for it, and it is
\* counted as renamed (and, outside a dry run, has moved to the final path).
C21_OrphanIsRenamedOnly ==
    (run = 1 /\ opts.input = DirInput /\ pc \notin {"start", "crashed"}) =>
        /\ \A l \in Locs : Orphan(l) =>
              \E k \in 1..Len(toProcess) :
                  /\ Loc(toProcess[k].mkvPath) = l
                  /\ ~toProcess[k].originalExists /\ toProcess[k].needsRename
        /\ (idx > 0 /\ pc \in {"delOrig", "rename", "itemEnd"} /\ ~Item.originalExists) =>
              /\ oDuration = Unset /\ cDuration = Unset /\ oSize = Unset /\ cSize = Unset
              /\ ~log[idx].prompted /\ ~log[idx].oversized /\ log[idx].answer = "none"
              /\ deletedCount = itemStart.deleted
              /\ pc # "itemEnd" => ItemUntouched
              /\ pc = "itemEnd" =>
                    /\ log[idx].res = "done"
                    /\ renamedCount = itemStart.renamed + 1
                    /\ opts.dryRun => fs = itemStart.fs
                    /\ ~opts.dryRun =>
                          /\ fs[Loc(Item.finalPath)] = itemStart.fs[Loc(Item.mkvPath)]
                          /\ fs[Loc(Item.mkvPath)] = NoFile
                          /\ \A l \in Locs \ {Loc(Item.finalPath), Loc(Item.mkvPath)} :
                                fs[l] = itemStart.fs[l]

\* clip_converted.mkv, tagged clip.mp4 with no clip.mp4 around, has become clip.mkv
C21_Witness ==
    /\ run = 1 /\ opts.input = DirInput /\ ~opts.dryRun
    /\ idx > 0 /\ pc = "itemEnd"
    /\ Orphan(Loc(Item.mkvPath))
    /\ Item.mkvPath.name = Name("clip_converted", "mkv")
    /\ ~Exists(fs, Item.mkvPath)
    /\ fs[Loc(Item.finalPath)].id = Name("clip_converted", "mkv")
    /\ deletedCount = itemStart.deleted /\ renamedCount = itemStart.renamed + 1

ConvItemLocs == {Loc(File), Loc(OutputPath(File)), Loc(TempPath(File))}

\* file k of the running loop has been taken up
Considered(k) ==
    IF command = "convert" THEN k <= idx
    ELSE k <= Len(toProcess)

\* file k of the running loop is done with
Complete(k) ==
    IF command = "convert" THEN clog[k].res # "pending"
    ELSE log[k].res # "pending"

\* C23 as stated: in convert and in finalize alike, nothing about file k+1 is
\* probed or decided before file k is done with.
C23_StrictlySequential ==
    \A k \in 1..(IF command = "convert" THEN Len(files) ELSE Len(toProcess)) :
        (k > 1 /\ Considered(k)) => Complete(k - 1)

\* C23, amended: each loop handles one file at a time, in order: the files before
\* the one in hand are done with, those after it are untouched by the loop, and
\* the disk changes only at the paths of the file in hand. The tag and existence
\* probes of finalize are not part of that loop: all of them are taken during the
\* scan, before the first candidate is handled.
C23_SequentialWithinLoops ==
    /\ (command = "finalize" /\ idx > 0 /\ (pc = "item" \/ InItem)) =>
          /\ \A i \in 1..Len(log) :
                /\ i < idx => log[i].res # "pending"
                /\ i > idx => log[i] = EmptyLog
          /\ pc = "item" => log[idx] = EmptyLog
          /\ InItem => \A l \in Locs \ ItemLocs(Item) : fs[l] = itemStart.fs[l]
          /\ Len(log) = Len(toProcess)
    /\ (command = "convert" /\ idx > 0 /\ (pc = "cItem" \/ ConvInItem)) =>
          /\ \A i \in 1..Len(clog) :
                /\ i < idx => clog[i].res # "pending"
                /\ i > idx => clog[i] = EmptyConvLog
          /\ pc = "cItem" => clog[idx] = EmptyConvLog
          /\ ConvInItem => \A l \in Locs \ ConvItemLocs : fs[l] = convStart.fs[l]

\* finalize is at its first candidate, and the second is already in the list
\* with its original found
C23_Witness ==
    /\ command = "finalize" /\ idx = 1 /\ pc = "delOrig"
    /\ Len(toProcess) = 2 /\ toProcess[2].originalExists
    /\ log[1].res = "pending" /\ log[2] = EmptyLog
    /\ Len(clog) = 2 /\ clog[1].res = "saved" /\ clog[2].res = "saved"

\* C24: in a finalize run with neither --force nor --dry-run nothing is deleted,
\* renamed or counted before the blanket confirmation was answered y or yes, and
\* after n or no the run has exited with the directory as it found it.
C24_NoMutationBeforeYes ==
    (command = "finalize" /\ ~opts.force /\ ~opts.dryRun) =>
        /\ pc \in {"start", "confirm"} =>
              fs = fs0 /\ deletedCount = 0 /\ renamedCount = 0 /\ typed = ""
        /\ (fs # fs0 \/ deletedCount > 0 \/ renamedCount > 0 \/ idx > 0) =>
              (typed \in {"y", "yes"} /\ confirms = 1)
        /\ typed \in {"n", "no"} =>
              /\ pc = "exit" /\ idx = 0
              /\ fs = fs0 /\ deletedCount = 0 /\ renamedCount = 0
        /\ typed \in {"", "y", "yes", "n", "no"}

\* y (or " Y") was typed, and an original has been deleted since
C24_Witness ==
    /\ command = "finalize" /\ ~opts.force /\ ~opts.dryRun
    /\ typed = "y" /\ confirms = 1
    /\ pc = "done" /\ deletedCount > 0 /\ fs # fs0

\* candidate k had an original when the directory was scanned, and one of the two
\* contents of the pair is still where it can be found
PairKept(k) ==
    \/ fs[OrigLoc(k)] = fs0[OrigLoc(k)]
    \/ fs[MkvLoc(k)] = fs0[MkvLoc(k)]
    \/ fs[FinalLoc(k)] = fs0[MkvLoc(k)]

\* C25: at every point of a finalize run, every candidate that had an original
\* and a converted file at scan time still has the original at its path, or the
\* converted content at its current or at its final path.
C25_NoPairLost ==
    (command = "finalize" /\ run = 1) =>
        \A k \in 1..Len(toProcess) : toProcess[k].originalExists => PairKept(k)

\* C26: when finalize has renamed a converted file to its final path, nothing was
\* at that path when the candidate was taken up, except the candidate's own
\* original, deleted in the same step.
C26_RenameDestroysNothing ==
    (command = "finalize" /\ idx > 0 /\ pc = "itemEnd" /\ ~opts.dryRun
        /\ log[idx].res = "done" /\ Item.needsRename) =>
        \/ itemStart.fs[Loc(Item.finalPath)] = NoFile
        \/ Item.originalExists /\ Loc(Item.finalPath) = Loc(Item.originalPath)

\* C27: outside a dry run, for a candidate with an original, the rename is reached
\* only with the original deleted and counted; a deletion that fails ends the
\* candidate: the converted file stays where it is and neither counter moves.
C27_RenameAfterDeletion ==
    /\ [](((command = "finalize" /\ idx > 0 /\ ~opts.dryRun) =>
            /\ (pc = "delOrig" /\ Item.originalExists) => ItemUntouched
            /\ (pc = "rename" /\ Item.originalExists) =>
                  /\ ~Exists(fs, Item.originalPath)
                  /\ deletedCount = itemStart.deleted + 1
                  /\ renamedCount = itemStart.renamed))
    /\ [][(command = "finalize" /\ idx > 0 /\ ~opts.dryRun /\ pc = "delOrig"
            /\ Item.originalExists /\ Exists(fs', Item.originalPath)) =>
              /\ pc' = "itemEnd"
              /\ log'[idx].res = "failed"
              /\ fs' = fs
              /\ deletedCount' = deletedCount /\ renamedCount' = renamedCount]_vars

\* the sizes were read, then the deletion of the original failed: the candidate
\* is over with both files in place
C27_Witness ==
    /\ command = "finalize" /\ idx > 0 /\ ~opts.dryRun /\ pc = "itemEnd"
    /\ Item.originalExists /\ Item.needsRename
    /\ oSize # Unset /\ action = "none"
    /\ log[idx].res = "failed"
    /\ ItemUntouched
    /\ Exists(fs, Item.originalPath) /\ Exists(fs, Item.mkvPath)

\* C28: every path finalize unlinks or renames for a tagged file, and every rename
\* destination, is in the directory of that file, whatever the tag says.
C28_StaysInDirectory ==
    \A path \in touched : PathDirname(path) = PathDirname(plan.mkvPath)

\* what a "to all" answer stands for from then on
MemoOf(answer) ==
    CASE answer = "yes_all" -> "delete_converted"
      [] answer = "no_all" -> "keep_converted"
      [] answer = "skip_all" -> "skip_all"
      [] OTHER -> "ask"

\* C29: the remembered policy of a finalize run is "ask" when the run starts; it
\* changes only at a prompt answered with a "to all" answer, to the value that
\* answer stands for; yes, no and skip leave it at "ask"; once it is not "ask" it
\* stays what it is until the run ends.
C29_PolicyMemo ==
    /\ [](pc \in {"start", "confirm"} => largerFilePolicy = "ask")
    /\ [][(largerFilePolicy' # largerFilePolicy) =>
            /\ largerFilePolicy = "ask"
            /\ pc = "prompt"
            /\ log'[idx].answer \in LargerToAll
            /\ largerFilePolicy' = MemoOf(log'[idx].answer)]_vars
    /\ [][(pc = "prompt" /\ log'[idx].answer \in {"yes", "no", "skip"}) =>
            (largerFilePolicy = "ask" /\ largerFilePolicy' = "ask")]_vars
    /\ [][(pc = "prompt" /\ log'[idx].answer \in LargerToAll) =>
            largerFilePolicy' = MemoOf(log'[idx].answer)]_vars

\* the first prompt was answered yes, the second no to all
C29_Witness ==
    /\ Len(log) = 2 /\ pc = "done"
    /\ log[1].answer = "yes" /\ log[2].answer = "no_all"
    /\ largerFilePolicy = "keep_converted"

\* C30: a finalize run ends, at the summary or at an exit, once every prompt has
\* had a valid answer; the candidates are taken one by one in the order of the
\* list, each settled once; an invalid answer only brings the same question
\* back, with the policy, the counters, the disk and the position as they were.
C30_FinalizeTerminates ==
    /\ <>(pc \in {"done", "exit"})
    /\ [](pc = "done" =>
            (idx = Len(toProcess) /\ \A i \in 1..Len(log) : log[i].res # "pending"))
    /\ [][idx' # idx => idx' = idx + 1]_vars
    /\ [][\A i \in 1..Len(log) :
            (Len(log') = Len(log) /\ log[i].res # "pending") => log'[i] = log[i]]_vars
    /\ [][reasks' > reasks =>
            /\ pc \in {"confirm", "prompt"} /\ pc' = pc /\ idx' = idx
            /\ largerFilePolicy' = largerFilePolicy
            /\ deletedCount' = deletedCount /\ renamedCount' = renamedCount
            /\ fs' = fs /\ log' = log /\ toProcess' = toProcess]_vars

\* the summary is reached after the blanket confirmation and a per-file question
\* were answered, with both candidates settled
C30_Witness ==
    /\ pc = "done" /\ Len(log) = 2 /\ idx = 2
    /\ confirms = 1 /\ typed = "y"
    /\ log[1].prompted /\ log[1].answer # "none"
    /\ log[1].res # "pending" /\ log[2].res # "pending"

====
